---- MODULE Spec2Model ----
(***************************************************************************)
(* Parameter binders of the ora driver: the LOB streaming binder           *)
(* (bndLob.go), the day-second interval and int64-slice binders            *)
(* (bndIntervalDS.go) and the timestamp binder (unnamed/part_000), with    *)
(* the native descriptors they own and the statement's binder free-list.   *)
(*                                                                         *)
(* One behaviour follows the binders of one kind on one statement: the     *)
(* kinds share no state (each has its own free-list and descriptors), so   *)
(* Init picks the kind and the actions of the other kinds stay disabled.   *)
(***************************************************************************)
EXTENDS Integers, Sequences, FiniteSets, TLC

VARIABLES
  kind,      \* the binder kind this behaviour follows
  bnds,      \* the binder objects created so far (index = identity)
  freeList,  \* the statement's free-list of idle binders of this kind
  heap,      \* native descriptors and C buffers allocated so far
  calls,     \* native calls issued by the operation running / last run
  ret,       \* what the last finished operation returned
  lob,       \* locals of the bindReader / writeLob call in progress
  crashed,   \* the native library hit undefined behaviour and died
  nbinds     \* binds started so far (bounds the behaviour)

vars == <<kind, bnds, freeList, heap, calls, ret, lob, crashed, nbinds>>

----------------------------------------------------------------------------
(* Bounds of the model *)

MaxLen == 5      \* longest byte source
MaxBuf == 2      \* largest requested lobBufferSize
MaxBinds == 2    \* binds per behaviour
MaxBnd == 2      \* binder objects per kind
MaxArrBnd == 1   \* int64 slice binder objects
MaxCloses == 2   \* closes in a row on one binder

(* lobChunkSize, the default chunk size, is defined outside src/; the model
   scales it down: only its order against lobBufferSize matters. *)
lobChunkSize == 1

Kinds == {"IntervalDS", "Time", "Lob", "Int64Slice"}

NilP == 0        \* a nil pointer
TheStmt == 1     \* the statement the binders are bound to
TheOcibnd == 1   \* the bind handle OCIBINDBYPOS hands back

----------------------------------------------------------------------------
(* Native heap: one record per descriptor or C buffer, index = address.
   frees / tempFrees list who issued each free on it. *)

NewDesc(type, temp) == [type |-> type, temp |-> temp, frees |-> <<>>, tempFrees |-> <<>>]

FreeDesc(h, d, who) == IF d = NilP THEN h ELSE [h EXCEPT ![d].frees = Append(@, who)]

FreeTemp(h, d, who) == IF d = NilP THEN h ELSE [h EXCEPT ![d].tempFrees = Append(@, who)]

(* A free on a descriptor that was freed before is undefined behaviour. *)
IsDangling(h, d) == d # NilP /\ Len(h[d].frees) > 0

Call(op, arg, piece, off, buf, st) ==
  [op |-> op, arg |-> arg, piece |-> piece, off |-> off, buf |-> buf, st |-> st]

NoRet ==
  [op |-> "none", bnd |-> 0, err |-> "nil", panicAt |-> "none", escaped |-> FALSE,
   pushed |-> FALSE, iters |-> 0]

(* operation op on binder b returned err *)
Ret(op, b, err) == [NoRet EXCEPT !.op = op, !.bnd = b, !.err = err]

(* operation op panicked at step at and nothing recovered: the caller sees it *)
Panicked(op, b, at) == [Ret(op, b, "panic") EXCEPT !.panicAt = at, !.escaped = TRUE]

(* close panicked at step at: the deferred function recovers, and close
   returns the panic value as its error *)
Recovered(b, at) == [Ret("close", b, "panic") EXCEPT !.panicAt = at]

----------------------------------------------------------------------------
(* The statement's binder pool (stmt.getBnd / stmt.putBnd are outside src/) *)

(* putBnd: push the binder on the statement's free-list; the free-list lives
   in the statement, so a nil statement is a nil dereference. *)
putBndPanics(stmt) == stmt = NilP

putBnd(fl, b) == Append(fl, b)

(* no bindReader in progress *)
LobIdle ==
  [pc |-> "none", bnd |-> 0, B |-> 0, L |-> 0, term |-> "EOF", pos |-> 0,
   mem |-> <<<<>>, <<>>>>, act |-> [arr |-> 1, len |-> 0], next |-> [arr |-> 1, len |-> 0],
   actPiece |-> "FIRST", nextPiece |-> "NEXT", off |-> 0, amts |-> <<>>]

Busy == lob.pc \in {"look", "write", "bindpos"}

----------------------------------------------------------------------------
(* LOB streaming binder *)

(* The byte source: L bytes, byte i of value i, then end-of-stream or a read
   error.  Distinct bytes make every misplaced byte visible. *)
SrcData(L) == [i \in 1..L |-> i]

(* how the reader ends after its L bytes: io.EOF, an error of its own, or
   io.ErrUnexpectedEOF handed up by the reader itself *)
Terms == {"EOF", "ERR", "UEOF"}

(* io.ReadFull(r, buf) with len(buf) = bufLen, pos bytes consumed so far:
   a short read ends with the reader's error, io.EOF after some bytes
   becoming io.ErrUnexpectedEOF *)
ReadFull(pos, L, term, bufLen) ==
  LET avail == L - pos IN
  IF avail >= bufLen THEN [n |-> bufLen, err |-> "nil"]
  ELSE [n |-> avail,
        err |-> IF term = "ERR" THEN "ErrRead"
                ELSE IF term = "EOF" /\ avail = 0 THEN "EOF" ELSE "ErrUnexpectedEOF"]

(* the backing array after a read of n bytes from position pos into its front *)
Fill(arr, pos, n) == [i \in 1..Len(arr) |-> IF i <= n THEN pos + i ELSE arr[i]]

(* writeLob's two buffers: both slices of the one local array arr when the
   pooled array is used, two fresh arrays otherwise *)
NextArr(B) == IF lobChunkSize >= B THEN 1 ELSE 2

InitMem(B) ==
  IF lobChunkSize >= B
    THEN <<[i \in 1..lobChunkSize |-> 0], <<>>>>
    ELSE <<[i \in 1..B |-> 0], [i \in 1..B |-> 0]>>

(* allocTempLob: descriptor alloc, then create temporary *)
allocTempLob(h, outcome) ==
  LET d == Len(h) + 1 IN
  CASE outcome = "allocErr" ->
         [loc |-> NilP, err |-> "ociError", heap |-> h,
          calls |-> <<Call("DescriptorAlloc", NilP, "", 0, <<>>, "err")>>]
    [] outcome = "allocInvalid" ->
         [loc |-> NilP, err |-> "errHandle", heap |-> h,
          calls |-> <<Call("DescriptorAlloc", NilP, "", 0, <<>>, "invalid")>>]
    [] outcome = "createErr" ->
         [loc |-> NilP, err |-> "ociError",
          heap |-> FreeDesc(Append(h, NewDesc("LOB", "none")), d, "alloc"),
          calls |-> <<Call("DescriptorAlloc", d, "", 0, <<>>, "ok"),
                      Call("LobCreateTemporary", d, "", 0, <<>>, "err"),
                      Call("DescriptorFree", d, "", 0, <<>>, "ok")>>]
    [] OTHER ->
         [loc |-> d, err |-> "nil", heap |-> Append(h, NewDesc("LOB", "created")),
          calls |-> <<Call("DescriptorAlloc", d, "", 0, <<>>, "ok"),
                      Call("LobCreateTemporary", d, "", 0, <<>>, "ok")>>]

(* the finish closure allocTempLob returns *)
finishHeap(h, d) == FreeDesc(FreeTemp(h, d, "finish"), d, "finish")

finishCalls(d) ==
  <<Call("LobFreeTemporary", d, "", 0, <<>>, "ok"), Call("DescriptorFree", d, "", 0, <<>>, "ok")>>

(* bindReader's path out when writeLob has returned err *)
WriteLobFailed_NoBreak(b, err, cs) ==
  /\ calls' = cs \o finishCalls(bnds[b].ociLobLocator)
  /\ heap' = finishHeap(heap, bnds[b].ociLobLocator)
  /\ ret' = Ret("bindReader", b, err)

WriteLobFailed(b, err, cs) ==
  /\ calls' = cs \o <<Call("Break", NilP, "", 0, <<>>, "ok")>> \o finishCalls(bnds[b].ociLobLocator)
  /\ heap' = finishHeap(heap, bnds[b].ociLobLocator)
  /\ ret' = Ret("bindReader", b, err)

(* the piece class of the pending chunk when the lookahead read hit EOF *)
PieceOnEof_AlwaysLast(actPiece) == "LAST"

PieceOnEof(actPiece) == IF actPiece = "FIRST" THEN "ONE" ELSE "LAST"

(* writeLob's first read: the errors that end it, and what it returns *)
FirstReadFails_NoEmptyCheck(rerr) == rerr = "ErrRead"

FirstReadFails(rerr) == rerr \in {"EOF", "ErrRead"}

FirstReadError(rerr) == IF rerr = "EOF" THEN "errEmpty" ELSE "ErrRead"

(* bindReader up to and including writeLob's first read *)
LobBindReader(b, L, term, lobBufferSize, outcome) ==
  /\ kind = "Lob" /\ ~crashed /\ ~Busy /\ nbinds < MaxBinds
  /\ bnds[b].phase = "idle"
  /\ LET B == IF lobBufferSize <= 0 THEN lobChunkSize ELSE lobBufferSize
         a == allocTempLob(heap, outcome)
         r == ReadFull(0, L, term, B)
         w == [LobIdle EXCEPT !.bnd = b, !.B = B, !.L = L, !.term = term, !.pos = r.n,
                              !.mem = [InitMem(B) EXCEPT ![1] = Fill(@, 0, r.n)],
                              !.act = [arr |-> 1, len |-> IF r.err = "nil" THEN B ELSE r.n],
                              !.next = [arr |-> NextArr(B), len |-> B],
                              !.actPiece = IF r.err = "ErrUnexpectedEOF" THEN "ONE" ELSE "FIRST"]
     IN
     /\ nbinds' = nbinds + 1
     /\ bnds' = [bnds EXCEPT ![b].stmt = TheStmt, ![b].ociLobLocator = a.loc,
                             ![b].phase = "bound", ![b].closes = 0]
     /\ IF a.err # "nil"
          THEN /\ calls' = a.calls /\ heap' = a.heap
               /\ ret' = Ret("bindReader", b, a.err)
               /\ lob' = [LobIdle EXCEPT !.pc = "ret", !.bnd = b, !.B = B, !.L = L, !.term = term]
          ELSE IF FirstReadFails(r.err)
          THEN /\ calls' = a.calls \o <<Call("Break", NilP, "", 0, <<>>, "ok")>> \o finishCalls(a.loc)
               /\ heap' = finishHeap(a.heap, a.loc)
               /\ ret' = Ret("bindReader", b, FirstReadError(r.err))
               /\ lob' = [w EXCEPT !.pc = "ret"]
          ELSE /\ calls' = a.calls /\ heap' = a.heap
               /\ ret' = NoRet
               /\ lob' = [w EXCEPT !.pc = "look"]
  /\ UNCHANGED <<kind, freeList, crashed>>

(* top of writeLob's loop: the lookahead read when the pending chunk is full *)
LobLookahead ==
  /\ kind = "Lob" /\ ~crashed /\ lob.pc = "look"
  /\ IF lob.act.len = lob.B
       THEN LET r == ReadFull(lob.pos, lob.L, lob.term, lob.next.len)
                w == [lob EXCEPT !.pos = @ + r.n,
                                 !.mem[lob.next.arr] = Fill(@, lob.pos, r.n),
                                 !.next.len = IF r.err = "nil" THEN @ ELSE r.n,
                                 !.actPiece = IF r.err = "EOF" THEN PieceOnEof(@) ELSE @,
                                 !.nextPiece = IF r.err = "ErrUnexpectedEOF" THEN "LAST" ELSE @]
            IN IF r.err = "ErrRead"
                 THEN /\ WriteLobFailed(lob.bnd, "ErrRead", calls)
                      /\ lob' = [lob EXCEPT !.pc = "ret", !.pos = @ + r.n,
                                            !.mem[lob.next.arr] = Fill(@, lob.pos, r.n)]
                 ELSE /\ lob' = [w EXCEPT !.pc = "write"]
                      /\ UNCHANGED <<calls, heap, ret>>
       ELSE /\ lob' = [lob EXCEPT !.pc = "write"]
            /\ UNCHANGED <<calls, heap, ret>>
  /\ UNCHANGED <<kind, bnds, freeList, crashed, nbinds>>

(* writeLob leaves its loop after writing this piece *)
IsFinalPiece_LastOnly(piece) == piece = "LAST"

IsFinalPiece(piece) == piece = "LAST" \/ piece = "ONE"

(* the amounts OCILobWrite2 may report as consumed for a chunk of n bytes *)
AmtChoices(n) == {n} \cup (IF n > 1 THEN {n - 1} ELSE {})

(* off += byte_amtp: the running offset after a write of n bytes of which
   the native call reported amt consumed *)
NextOff_ByBufLen(off, amt, n) == off + n

NextOff(off, amt, n) == off + amt

(* OCILobWrite2 of the pending chunk, then break or swap *)
LobWrite(st, amt) ==
  /\ kind = "Lob" /\ ~crashed /\ lob.pc = "write"
  /\ amt \in AmtChoices(lob.act.len)
  /\ LET n == lob.act.len
         c == Call("LobWrite2", bnds[lob.bnd].ociLobLocator, lob.actPiece, lob.off + 1,
                   SubSeq(lob.mem[lob.act.arr], 1, n), st)
     IN IF n = 0
          THEN \* &actBuf[0] on an empty slice: index out of range
               /\ ret' = Panicked("bindReader", lob.bnd, "write")
               /\ lob' = [lob EXCEPT !.pc = "ret"]
               /\ UNCHANGED <<calls, heap>>
          ELSE IF st = "err"
          THEN /\ WriteLobFailed(lob.bnd, "ociError", Append(calls, c))
               /\ lob' = [lob EXCEPT !.pc = "ret"]
          ELSE /\ calls' = Append(calls, c)
               /\ lob' = IF IsFinalPiece(lob.actPiece)
                           THEN [lob EXCEPT !.pc = "bindpos", !.off = NextOff(@, amt, n),
                                            !.amts = Append(@, amt)]
                           ELSE [lob EXCEPT !.pc = "look", !.off = NextOff(@, amt, n),
                                            !.amts = Append(@, amt),
                                            !.actPiece = lob.nextPiece, !.act = lob.next]
               /\ UNCHANGED <<heap, ret>>
  /\ UNCHANGED <<kind, bnds, freeList, crashed, nbinds>>

(* bindByPos of the locator, and bindReader's return *)
LobBindByPos(st) ==
  /\ kind = "Lob" /\ ~crashed /\ lob.pc = "bindpos"
  /\ LET b == lob.bnd
         d == bnds[b].ociLobLocator
         c == Call("BindByPos", d, "", 0, <<>>, st)
     IN IF st = "err"
          THEN /\ calls' = Append(calls, c) \o finishCalls(d)
               /\ heap' = finishHeap(heap, d)
               /\ ret' = Ret("bindReader", b, "ociError")
               /\ bnds' = bnds
          ELSE /\ calls' = Append(calls, c)
               /\ heap' = heap
               /\ ret' = Ret("bindReader", b, "nil")
               /\ bnds' = [bnds EXCEPT ![b].ocibnd = TheOcibnd]
  /\ lob' = [lob EXCEPT !.pc = "ret"]
  /\ UNCHANGED <<kind, freeList, crashed, nbinds>>

(* who a close is, for the heap's record of frees: close1, close2, ... *)
CloseTag(b) == IF bnds[b].closes = 0 THEN "close1" ELSE "close2"

CanClose(b) ==
  /\ ~crashed /\ ~Busy
  /\ bnds[b].phase \in {"bound", "closed"}
  /\ bnds[b].closes < MaxCloses

(* the fields bndLob.close clears before the pool return *)
LobReset(bnd) == [bnd EXCEPT !.stmt = NilP, !.ocibnd = NilP, !.ociLobLocator = NilP]

(* bndLob.close *)
LobClose(b, dies) ==
  /\ kind = "Lob" /\ CanClose(b)
  /\ lob' = LobIdle
  /\ IF bnds[b].stmt = NilP
       THEN \* bnd.stmt.ses: nil dereference, recovered by the deferred function
            /\ dies = FALSE
            /\ calls' = <<>>
            /\ ret' = Recovered(b, "free")
            /\ bnds' = [bnds EXCEPT ![b].closes = @ + 1, ![b].phase = "closed"]
            /\ UNCHANGED <<heap, freeList, crashed>>
       ELSE LET d == bnds[b].ociLobLocator IN
            /\ calls' = <<Call("LobFreeTemporary", d, "", 0, <<>>, "ok"),
                          Call("DescriptorFree", d, "", 0, <<>>, "ok")>>
            /\ heap' = FreeDesc(FreeTemp(heap, d, CloseTag(b)), d, CloseTag(b))
            /\ (dies => IsDangling(heap, d))
            /\ IF dies
                 THEN /\ crashed' = TRUE /\ ret' = NoRet
                      /\ UNCHANGED <<bnds, freeList>>
                 ELSE /\ crashed' = FALSE
                      /\ bnds' = [bnds EXCEPT ![b] = [LobReset(@) EXCEPT !.closes = @ + 1,
                                                                         !.phase = "closed"]]
                      /\ freeList' = putBnd(freeList, b)
                      /\ ret' = [Ret("close", b, "nil") EXCEPT !.pushed = TRUE]
  /\ UNCHANGED <<kind, nbinds>>

----------------------------------------------------------------------------
(* Day-second interval binder *)

(* what a scalar bind returns: nil, the environment's last native error, or
   the handle error for OCI_INVALID_HANDLE from the descriptor allocation *)
ScalarBindError_IgnoresPopulate(outcome) ==
  CASE outcome = "allocInvalid" -> "errHandle"
    [] outcome \in {"ok", "setErr"} -> "nil"
    [] OTHER -> "ociError"

ScalarBindError(outcome) ==
  CASE outcome = "allocInvalid" -> "errHandle"
    [] outcome = "ok" -> "nil"
    [] OTHER -> "ociError"

IntervalVals == {<<1, 2, 3, 4, 5>>, <<-1, 0, 0, 0, -5>>}

(* bndIntervalDS.bind: allocate, populate, register *)
IntervalBind(b, value, outcome) ==
  /\ kind = "IntervalDS" /\ ~crashed /\ nbinds < MaxBinds
  /\ bnds[b].phase = "idle"
  /\ nbinds' = nbinds + 1
  /\ lob' = LobIdle
  /\ LET d == Len(heap) + 1
         bnd0 == [bnds[b] EXCEPT !.stmt = TheStmt, !.phase = "bound", !.closes = 0]
         cAlloc(st) == Call("DescriptorAlloc", IF st = "ok" THEN d ELSE NilP, "", 0, <<>>, st)
         cSet(st) == Call("IntervalSetDaySecond", d, "", 0, value, st)
         cBind(st) == Call("BindByPos", d, "", 0, <<>>, st)
     IN
     CASE outcome = "allocErr" ->
            /\ calls' = <<cAlloc("err")>> /\ heap' = heap
            /\ bnds' = [bnds EXCEPT ![b] = bnd0]
            /\ ret' = Ret("bind", b, ScalarBindError(outcome))
       [] outcome = "allocInvalid" ->
            /\ calls' = <<cAlloc("invalid")>> /\ heap' = heap
            /\ bnds' = [bnds EXCEPT ![b] = bnd0]
            /\ ret' = Ret("bind", b, ScalarBindError(outcome))
       [] outcome = "setErr" ->
            /\ calls' = <<cAlloc("ok"), cSet("err")>>
            /\ heap' = Append(heap, NewDesc("INTERVAL_DS", "none"))
            /\ bnds' = [bnds EXCEPT ![b] = [bnd0 EXCEPT !.ociInterval = d]]
            /\ ret' = Ret("bind", b, ScalarBindError(outcome))
       [] outcome = "bindErr" ->
            /\ calls' = <<cAlloc("ok"), cSet("ok"), cBind("err")>>
            /\ heap' = Append(heap, NewDesc("INTERVAL_DS", "none"))
            /\ bnds' = [bnds EXCEPT ![b] = [bnd0 EXCEPT !.ociInterval = d]]
            /\ ret' = Ret("bind", b, ScalarBindError(outcome))
       [] OTHER ->
            /\ calls' = <<cAlloc("ok"), cSet("ok"), cBind("ok")>>
            /\ heap' = Append(heap, NewDesc("INTERVAL_DS", "none"))
            /\ bnds' = [bnds EXCEPT ![b] = [bnd0 EXCEPT !.ociInterval = d, !.ocibnd = TheOcibnd]]
            /\ ret' = Ret("bind", b, ScalarBindError(outcome))
  /\ UNCHANGED <<kind, freeList, crashed>>

(* the fields bndIntervalDS.close clears before the pool return *)
IntervalReset_KeepsDescriptor(bnd) == [bnd EXCEPT !.stmt = NilP, !.ocibnd = NilP]

IntervalReset(bnd) == [bnd EXCEPT !.stmt = NilP, !.ocibnd = NilP, !.ociInterval = NilP]

(* bndIntervalDS.close *)
IntervalClose(b) ==
  /\ kind = "IntervalDS" /\ CanClose(b)
  /\ lob' = LobIdle
  /\ LET d == bnds[b].ociInterval
         stmt == bnds[b].stmt
     IN
     /\ calls' = <<Call("DescriptorFree", d, "", 0, <<>>, "ok")>>
     /\ heap' = FreeDesc(heap, d, CloseTag(b))
     /\ bnds' = [bnds EXCEPT ![b] = [IntervalReset(@) EXCEPT !.closes = @ + 1,
                                                             !.phase = "closed"]]
     /\ IF putBndPanics(stmt)
          THEN /\ freeList' = freeList
               /\ ret' = Recovered(b, "put")
          ELSE /\ freeList' = putBnd(freeList, b)
               /\ ret' = [Ret("close", b, "nil") EXCEPT !.pushed = TRUE]
  /\ UNCHANGED <<kind, crashed, nbinds>>

----------------------------------------------------------------------------
(* Timestamp-with-zone binder *)

Digit(d) == CASE d = 0 -> "0" [] d = 1 -> "1" [] d = 2 -> "2" [] d = 3 -> "3" [] d = 4 -> "4"
              [] d = 5 -> "5" [] d = 6 -> "6" [] d = 7 -> "7" [] d = 8 -> "8" [] OTHER -> "9"

RECURSIVE Dec(_)
Dec(n) == IF n < 10 THEN <<Digit(n)>> ELSE Append(Dec(n \div 10), Digit(n % 10))

(* fmt.Sprintf("%02d", n) for n >= 0, as a sequence of characters *)
Sprintf02d_NoPad(n) == Dec(n)

Sprintf02d(n) == IF n < 10 THEN <<"0", Digit(n)>> ELSE Dec(n)

(* zoneOffset: the value's zone offset in seconds as "+HH:MM" / "-HH:MM" *)
zoneOffset(zoneOffsetInSeconds) ==
  LET secs == IF zoneOffsetInSeconds < 0 THEN zoneOffsetInSeconds * (-1) ELSE zoneOffsetInSeconds
      hourOffset == secs \div 3600
      minuteOffset == (secs - hourOffset * 3600) \div 60
  IN <<IF zoneOffsetInSeconds < 0 THEN "-" ELSE "+">> \o Sprintf02d(hourOffset)
       \o <<":">> \o Sprintf02d(minuteOffset)

ZoneOffsets == {-34200, -59, 0, 19800}

(* zoneOffset(value, &bnd.zoneBuf) alone, for a value whose zone is
   zoneOffsetInSeconds east of UTC: the buffer is reset and holds the string *)
ZoneOffsetCall(b, zoneOffsetInSeconds) ==
  /\ kind = "Time" /\ ~crashed
  /\ bnds' = [bnds EXCEPT ![b].zoneBuf = zoneOffset(zoneOffsetInSeconds)]
  /\ calls' = <<Call("zoneOffset", NilP, "", zoneOffsetInSeconds,
                     zoneOffset(zoneOffsetInSeconds), "ok")>>
  /\ ret' = Ret("zoneOffset", b, "nil")
  /\ UNCHANGED <<kind, freeList, heap, lob, crashed, nbinds>>

(* bndTime.bind: zone string, allocate, construct, register *)
TimeBind(b, zoneSecs, outcome) ==
  /\ kind = "Time" /\ ~crashed /\ nbinds < MaxBinds
  /\ bnds[b].phase = "idle"
  /\ nbinds' = nbinds + 1
  /\ lob' = LobIdle
  /\ LET zone == zoneOffset(zoneSecs)
         z == Len(heap) + 1
         d == Len(heap) + 2
         heapZ == Append(heap, NewDesc("CSTR", "none"))
         heapD == Append(heapZ, NewDesc("TIMESTAMP_TZ", "none"))
         bnd0 == [bnds[b] EXCEPT !.stmt = TheStmt, !.zoneBuf = zone, !.cZone = z,
                                 !.phase = "bound", !.closes = 0]
         cStr == Call("CString", z, "", 0, zone, "ok")
         cAlloc(st) == Call("DescriptorAlloc", IF st = "ok" THEN d ELSE NilP, "", 0, <<>>, st)
         cCons(st) == Call("DateTimeConstruct", d, "", 0, zone, st)
         cBind(st) == Call("BindByPos", d, "", 0, <<>>, st)
     IN
     CASE outcome = "allocErr" ->
            /\ calls' = <<cStr, cAlloc("err")>> /\ heap' = heapZ
            /\ bnds' = [bnds EXCEPT ![b] = bnd0]
            /\ ret' = Ret("bind", b, ScalarBindError(outcome))
       [] outcome = "allocInvalid" ->
            /\ calls' = <<cStr, cAlloc("invalid")>> /\ heap' = heapZ
            /\ bnds' = [bnds EXCEPT ![b] = bnd0]
            /\ ret' = Ret("bind", b, ScalarBindError(outcome))
       [] outcome = "setErr" ->
            /\ calls' = <<cStr, cAlloc("ok"), cCons("err")>> /\ heap' = heapD
            /\ bnds' = [bnds EXCEPT ![b] = [bnd0 EXCEPT !.ociDateTime = d]]
            /\ ret' = Ret("bind", b, ScalarBindError(outcome))
       [] outcome = "bindErr" ->
            /\ calls' = <<cStr, cAlloc("ok"), cCons("ok"), cBind("err")>> /\ heap' = heapD
            /\ bnds' = [bnds EXCEPT ![b] = [bnd0 EXCEPT !.ociDateTime = d]]
            /\ ret' = Ret("bind", b, ScalarBindError(outcome))
       [] OTHER ->
            /\ calls' = <<cStr, cAlloc("ok"), cCons("ok"), cBind("ok")>> /\ heap' = heapD
            /\ bnds' = [bnds EXCEPT ![b] = [bnd0 EXCEPT !.ociDateTime = d, !.ocibnd = TheOcibnd]]
            /\ ret' = Ret("bind", b, ScalarBindError(outcome))
  /\ UNCHANGED <<kind, freeList, crashed>>

(* the fields bndTime.close clears before the pool return *)
TimeReset_KeepsHandle(bnd) ==
  [bnd EXCEPT !.stmt = NilP, !.ociDateTime = NilP, !.cZone = NilP, !.zoneBuf = <<>>]

TimeReset(bnd) ==
  [bnd EXCEPT !.stmt = NilP, !.ocibnd = NilP, !.ociDateTime = NilP, !.cZone = NilP,
              !.zoneBuf = <<>>]

(* bndTime.close frees the zone string and the descriptor: if bnd.cZone != nil *)
TimeCloseFrees_WhenRegistered(bnd) == bnd.ocibnd # NilP

TimeCloseFrees(bnd) == bnd.cZone # NilP

(* bndTime.close *)
TimeClose(b) ==
  /\ kind = "Time" /\ CanClose(b)
  /\ lob' = LobIdle
  /\ LET z == bnds[b].cZone
         d == bnds[b].ociDateTime
         stmt == bnds[b].stmt
     IN
     /\ calls' = IF TimeCloseFrees(bnds[b])
                   THEN <<Call("free", z, "", 0, <<>>, "ok"),
                          Call("DescriptorFree", d, "", 0, <<>>, "ok")>>
                   ELSE <<>>
     /\ heap' = IF TimeCloseFrees(bnds[b])
                  THEN FreeDesc(FreeDesc(heap, z, CloseTag(b)), d, CloseTag(b))
                  ELSE heap
     /\ bnds' = [bnds EXCEPT ![b] = [TimeReset(@) EXCEPT !.closes = @ + 1,
                                                         !.phase = "closed"]]
     /\ IF putBndPanics(stmt)
          THEN /\ freeList' = freeList
               /\ ret' = Recovered(b, "put")
          ELSE /\ freeList' = putBnd(freeList, b)
               /\ ret' = [Ret("close", b, "nil") EXCEPT !.pushed = TRUE]
  /\ UNCHANGED <<kind, crashed, nbinds>>

----------------------------------------------------------------------------
(* Go slices: a length and a backing array (its length is the capacity) *)

ZeroSlice == [len |-> 0, buf |-> <<>>]

Cap(s) == Len(s.buf)

Make(L, C, zero) == [len |-> L, buf |-> [i \in 1..C |-> zero]]

Reslice(s, n) == [s EXCEPT !.len = n]

(* if cap(s) < C { s = make(L, C) } else { s = s[:L] } *)
EnsureSlice(s, L, C, zero) == IF Cap(s) < C THEN Make(L, C, zero) ELSE Reslice(s, L)

(* append(s, v): in place when there is room, else a grown copy *)
GoAppend(s, v) ==
  IF s.len < Cap(s)
    THEN [len |-> s.len + 1, buf |-> [s.buf EXCEPT ![s.len + 1] = v]]
    ELSE [len |-> s.len + 1,
          buf |-> [i \in 1..(IF Cap(s) = 0 THEN 1 ELSE 2 * Cap(s)) |->
                     IF i <= s.len THEN s.buf[i] ELSE IF i = s.len + 1 THEN v ELSE 0]]

Min(a, b) == IF a < b THEN a ELSE b

----------------------------------------------------------------------------
(* OCINumber: sign and base-100 magnitude digits, most significant first *)

RECURSIVE Base100(_)
Base100(n) == IF n = 0 THEN <<>> ELSE Append(Base100(n \div 100), n % 100)

RECURSIVE FromBase100(_)
FromBase100(ds) ==
  IF ds = <<>> THEN 0 ELSE 100 * FromBase100(SubSeq(ds, 1, Len(ds) - 1)) + ds[Len(ds)]

(* OCINumberFromInt of a signed host integer *)
NumberFromInt(v) == [neg |-> v < 0, digs |-> Base100(IF v < 0 THEN 0 - v ELSE v)]

ZeroNumber == [neg |-> FALSE, digs |-> <<>>]

(* the host integer range, scaled down from 64 bits *)
HostIntMax == 30000

(* OCINumberToInt into a signed host integer: OCI_ERROR when it does not fit *)
NumberToIntFails(num) == FromBase100(num.digs) > HostIntMax

NumberToInt(num) == IF num.neg THEN 0 - FromBase100(num.digs) ELSE FromBase100(num.digs)

SizeofNumber == 22

NullInd == -1

----------------------------------------------------------------------------
(* int64 slice binder *)

MaxRows == 2     \* longest caller slice

ZeroInt64 == [IsNull |-> FALSE, Value |-> 0]

(* the value of non-null row i of the k-th bind: signs and magnitudes differ
   between rows and between binds, so a stale or misplaced value shows *)
RowVal(k, i) == IF i % 2 = 0 THEN 0 - (100 * k + i) ELSE 100 * k + i

(* the caller's []Int64: L rows, capacity C, the rows in nulls are null *)
OraInput(k, L, C, nulls) ==
  [len |-> L,
   buf |-> [i \in 1..C |-> IF i > L THEN ZeroInt64
                           ELSE IF i \in nulls THEN [IsNull |-> TRUE, Value |-> 0]
                           ELSE [IsNull |-> FALSE, Value |-> RowVal(k, i)]]]

(* the caller's plain []int64 *)
PlainInput(k, L, C) == [len |-> L, buf |-> [i \in 1..C |-> IF i > L THEN 0 ELSE RowVal(k, i)]]

ZeroInt64Bnd ==
  [stmt |-> NilP, ocibnd |-> NilP, ociNumbers |-> ZeroSlice, values |-> NilP, ints |-> ZeroSlice,
   curlen |-> 0, nullInds |-> ZeroSlice, alen |-> ZeroSlice, rcode |-> ZeroSlice,
   isAssocArr |-> FALSE,
   cvals |-> ZeroSlice,    \* the caller's slice bnd.values points to
   input |-> ZeroSlice,    \* the caller's slice as bindOra received it
   maxarr |-> 0,           \* maxarr_len of the last registration
   ex |-> "no",            \* no | failed | exec | setptr: how far the bind has come
   phase |-> "idle", closes |-> 0]

(* arrHlp.ensureBindArrLength (outside src/): curlen is the real length; an
   associative-array bind of no rows gets one synthetic slot, the value slice
   then needs an element appended; the helper arrays take the new length *)
ensureBindArrLength(a, L, C, assoc) ==
  LET grow == assoc /\ L = 0
      L2 == IF grow THEN 1 ELSE L
      C2 == IF C < L2 THEN L2 ELSE C
  IN [length |-> L2, capacity |-> C2,
      iterations |-> IF assoc THEN 1 ELSE L,
      needAppend |-> grow,
      bnd |-> [a EXCEPT !.curlen = L, !.isAssocArr = assoc,
                        !.nullInds = EnsureSlice(@, L2, C2, 0),
                        !.alen = EnsureSlice(@, L2, C2, 0),
                        !.rcode = EnsureSlice(@, L2, C2, 0)]]

(* arrHlp.close (outside src/): the helper arrays are emptied, their storage kept *)
arrHlpClose(a) ==
  [a EXCEPT !.curlen = 0, !.isAssocArr = FALSE, !.nullInds = Reslice(@, 0),
            !.alen = Reslice(@, 0), !.rcode = Reslice(@, 0)]

(* the one element of a singleton set *)
Only(S) == CHOOSE x \in S : TRUE

(* the rows the conversion loop visits: it returns at the row whose
   OCINumberFromInt fails, else it visits all rows *)
RowsTouched_KeepsGoing(convFails, failRow, rows) == rows

RowsTouched(convFails, failRow, rows) == IF convFails THEN failRow ELSE rows

(* bndInt64Slice.bind up to the end of its conversion loop: e is what
   ensureBindArrLength returned, o names the native call that fails *)
Int64Convert(e, values, o) ==
  LET vals2 == IF e.needAppend THEN GoAppend(values, 0) ELSE values
      nums == EnsureSlice(e.bnd.ociNumbers, e.length, e.capacity, ZeroNumber)
      n == vals2.len
      room == Min(e.bnd.alen.len, nums.len)
      failRow == CASE o = "conv1" -> 1 [] o = "convLast" -> n [] OTHER -> 0
      convFails == failRow >= 1 /\ failRow <= Min(n, room)
      done == IF convFails THEN failRow - 1 ELSE Min(n, room)   \* rows converted
      touched == RowsTouched(convFails, failRow, Min(n, room))  \* rows whose alen is set
  IN [convFails |-> convFails,
      loopPanics |-> ~convFails /\ n > room,
      iters |-> e.iterations,
      calls |-> [i \in 1..touched |->
                   Call("NumberFromInt", i, "", 0, <<>>,
                        IF convFails /\ i = failRow THEN "err" ELSE "ok")],
      bnd |-> [e.bnd EXCEPT
                 !.ints = vals2,
                 !.alen.buf = [i \in 1..Cap(e.bnd.alen) |->
                                 IF i <= touched THEN SizeofNumber ELSE e.bnd.alen.buf[i]],
                 !.ociNumbers = [len |-> nums.len,
                                 buf |-> [i \in 1..Cap(nums) |->
                                            IF i <= done THEN NumberFromInt(vals2.buf[i])
                                            ELSE nums.buf[i]]]]]

(* bndInt64Slice.bind from OCIBindByPos on: c is what the conversion loop left *)
Int64Register(c, o) ==
  LET b2 == c.bnd
      regPanics == b2.ociNumbers.len = 0 \/ b2.nullInds.len = 0 \/ b2.alen.len = 0
                     \/ b2.rcode.len = 0
      cBind(st) == Call("BindByPos", Cap(b2.ociNumbers), "", 0, <<>>, st)
      cStride(st) == Call("BindArrayOfStruct", NilP, "", 0, <<>>, st)
  IN
  IF c.convFails
    THEN [bnd |-> [b2 EXCEPT !.ex = "failed"], calls |-> c.calls, err |-> "ociError",
          iters |-> c.iters, panicAt |-> "none"]
  ELSE IF c.loopPanics \/ regPanics
    THEN [bnd |-> [b2 EXCEPT !.ex = "failed"], calls |-> c.calls, err |-> "panic",
          iters |-> 0, panicAt |-> IF c.loopPanics THEN "convert" ELSE "register"]
  ELSE IF o = "bindErr"
    THEN [bnd |-> [b2 EXCEPT !.ex = "failed", !.maxarr = Cap(b2.ociNumbers)],
          calls |-> Append(c.calls, cBind("err")), err |-> "ociError", iters |-> c.iters,
          panicAt |-> "none"]
  ELSE IF o = "strideErr"
    THEN [bnd |-> [b2 EXCEPT !.ex = "failed", !.maxarr = Cap(b2.ociNumbers),
                             !.ocibnd = TheOcibnd],
          calls |-> c.calls \o <<cBind("ok"), cStride("err")>>, err |-> "ociError",
          iters |-> c.iters, panicAt |-> "none"]
  ELSE [bnd |-> [b2 EXCEPT !.ex = "no", !.maxarr = Cap(b2.ociNumbers), !.ocibnd = TheOcibnd],
        calls |-> c.calls \o <<cBind("ok"), cStride("ok")>>, err |-> "nil",
        iters |-> c.iters, panicAt |-> "none"]

(* bndInt64Slice.bind on the binder record a: the binder after it, the native
   calls it made, and what it returned *)
Int64BindCore(a, values, assoc, o) ==
  Only({Int64Register(c, o) :
          c \in {Int64Convert(e, values, o) :
                   e \in {ensureBindArrLength([a EXCEPT !.stmt = TheStmt],
                                              values.len, Cap(values), assoc)}}})

(* the null indicator bindOra writes for a row *)
IndicatorOf_Inverted(row) == IF row.IsNull THEN 0 ELSE NullInd

IndicatorOf(row) == IF row.IsNull THEN NullInd ELSE 0

(* bndInt64Slice.bindOra before it calls bind: the rows of the caller's slice
   in split into the value slice and the indicator array *)
BindOraSplit(a, in) ==
  LET L == in.len
      ints0 == EnsureSlice(a.ints, L, Cap(in), 0)
      inds0 == EnsureSlice(a.nullInds, L, Cap(in), 0)
  IN [a EXCEPT !.values = 1, !.cvals = in, !.input = in,
               !.ints = [len |-> L,
                         buf |-> [i \in 1..Cap(ints0) |->
                                    IF i <= L /\ ~in.buf[i].IsNull THEN in.buf[i].Value
                                    ELSE ints0.buf[i]]],
               !.nullInds = [len |-> L,
                             buf |-> [i \in 1..Cap(inds0) |->
                                        IF i <= L THEN IndicatorOf(in.buf[i])
                                        ELSE inds0.buf[i]]]]

(* bndInt64Slice.bindOra: split the nullable rows, then bind *)
Int64BindOra(b, L, slack, nulls, assoc, o) ==
  /\ kind = "Int64Slice" /\ ~crashed /\ nbinds < MaxBinds
  /\ bnds[b].phase = "idle"
  /\ nbinds' = nbinds + 1
  /\ lob' = LobIdle
  /\ \E a1 \in {BindOraSplit(bnds[b], OraInput(nbinds + 1, L, L + slack, nulls))} :
     \E r \in {Int64BindCore(a1, a1.ints, assoc, o)} :
        /\ bnds' = [bnds EXCEPT ![b] = [r.bnd EXCEPT !.phase = "bound", !.closes = 0]]
        /\ calls' = r.calls
        /\ ret' = [Ret("bindOra", b, r.err) EXCEPT !.iters = r.iters, !.escaped = r.err = "panic",
                                                     !.panicAt = r.panicAt]
  /\ UNCHANGED <<kind, freeList, heap, crashed>>

(* bndInt64Slice.bind called with a plain []int64 *)
Int64Bind(b, L, slack, assoc, o) ==
  /\ kind = "Int64Slice" /\ ~crashed /\ nbinds < MaxBinds
  /\ bnds[b].phase = "idle"
  /\ nbinds' = nbinds + 1
  /\ lob' = LobIdle
  /\ \E in \in {PlainInput(nbinds + 1, L, L + slack)} :
     \E r \in {Int64BindCore([bnds[b] EXCEPT !.input = ZeroSlice, !.cvals = ZeroSlice],
                             in, assoc, o)} :
        /\ bnds' = [bnds EXCEPT ![b] = [r.bnd EXCEPT !.phase = "bound", !.closes = 0]]
        /\ calls' = r.calls
        /\ ret' = [Ret("bind", b, r.err) EXCEPT !.iters = r.iters, !.escaped = r.err = "panic",
                                                  !.panicAt = r.panicAt]
  /\ UNCHANGED <<kind, freeList, heap, crashed>>

(* what the native side stores in row i of an associative array *)
NativeVal(i) == 7 + i

NativeRow(pat, i) ==
  CASE pat = "null" -> "null"
    [] pat = "val" -> "val"
    [] pat = "alt" -> IF i % 2 = 1 THEN "val" ELSE "null"
    [] pat = "big" -> IF i = 1 THEN "big" ELSE "keep"
    [] OTHER -> "keep"

(* the statement executes: for an associative-array bind the native side
   reports the current length n <= maxarr_len and fills rows below it *)
Int64Exec(b, n, pat) ==
  /\ kind = "Int64Slice" /\ ~crashed
  /\ bnds[b].phase = "bound" /\ bnds[b].ex = "no" /\ bnds[b].isAssocArr
  /\ n <= bnds[b].maxarr
  /\ calls' = <<>> /\ ret' = Ret("exec", b, "nil") /\ lob' = LobIdle
  /\ LET a == bnds[b] IN
     IF n > Cap(a.nullInds)
       THEN \* the native side writes indicators past the end of the array
            /\ crashed' = TRUE /\ bnds' = bnds
       ELSE /\ crashed' = FALSE
            /\ bnds' = [bnds EXCEPT ![b] =
                 [a EXCEPT !.ex = "exec", !.curlen = n,
                           !.nullInds.buf = [i \in 1..Cap(a.nullInds) |->
                              IF i > n \/ NativeRow(pat, i) = "keep" THEN a.nullInds.buf[i]
                              ELSE IF NativeRow(pat, i) = "null" THEN NullInd ELSE 0],
                           !.ociNumbers.buf = [i \in 1..Cap(a.ociNumbers) |->
                              IF i > n \/ NativeRow(pat, i) \in {"keep", "null"}
                                THEN a.ociNumbers.buf[i]
                              ELSE IF NativeRow(pat, i) = "big"
                                THEN NumberFromInt(HostIntMax + 1)
                              ELSE NumberFromInt(NativeVal(i))]]]
  /\ UNCHANGED <<kind, freeList, heap, nbinds>>

(* setPtr's test of a row's indicator: the row is not null *)
IndNotNull_OffByOne(ind) == ind > 0

IndNotNull(ind) == ind > NullInd

(* bndInt64Slice.setPtr *)
Int64SetPtr(b) ==
  /\ kind = "Int64Slice" /\ ~crashed
  /\ bnds[b].phase = "bound"
  /\ bnds[b].ex = "exec" \/ (bnds[b].ex = "no" /\ ~bnds[b].isAssocArr)
  /\ calls' = <<>> /\ lob' = LobIdle
  /\ LET a == bnds[b]
         n == a.curlen
         vals == IF a.values = NilP THEN a.cvals
                 ELSE IF Cap(a.cvals) < n THEN Make(n, n, ZeroInt64) ELSE Reslice(a.cvals, n)
         bad == {i \in 1..n : IndNotNull(a.nullInds.buf[i]) /\ NumberToIntFails(a.ociNumbers.buf[i])}
         stop == IF bad = {} THEN n + 1 ELSE CHOOSE i \in bad : \A j \in bad : i <= j
         conv(i) == i < stop /\ IndNotNull(a.nullInds.buf[i])
     IN
     IF ~a.isAssocArr
       THEN /\ bnds' = [bnds EXCEPT ![b].ex = "setptr"]
            /\ ret' = Ret("setPtr", b, "nil")
     ELSE IF n > Cap(a.ints)
       THEN \* bnd.ints[:n]: slice bounds out of range
            /\ bnds' = [bnds EXCEPT ![b].ex = "setptr"]
            /\ ret' = Panicked("setPtr", b, "ints")
     ELSE IF n > Cap(a.nullInds)
       THEN /\ bnds' = [bnds EXCEPT ![b].ex = "setptr", ![b].ints.len = n]
            /\ ret' = Panicked("setPtr", b, "nullInds")
     ELSE IF n > Cap(a.ociNumbers)
       THEN /\ bnds' = [bnds EXCEPT ![b].ex = "setptr", ![b].ints.len = n,
                                    ![b].nullInds.len = n, ![b].cvals = vals]
            /\ ret' = Panicked("setPtr", b, "ociNumbers")
     ELSE /\ bnds' = [bnds EXCEPT ![b] =
               [a EXCEPT !.ex = "setptr", !.nullInds.len = n,
                         !.ints = [len |-> n,
                                   buf |-> [i \in 1..Cap(a.ints) |->
                                              IF i <= n /\ conv(i) THEN NumberToInt(a.ociNumbers.buf[i])
                                              ELSE a.ints.buf[i]]],
                         !.cvals = IF a.values = NilP THEN vals
                                   ELSE [vals EXCEPT !.buf = [i \in 1..Cap(vals) |->
                                       IF i >= stop \/ i > n THEN vals.buf[i]
                                       ELSE IF conv(i)
                                         THEN [IsNull |-> FALSE,
                                               Value |-> NumberToInt(a.ociNumbers.buf[i])]
                                       ELSE [vals.buf[i] EXCEPT !.IsNull = TRUE]]]]]
          /\ ret' = Ret("setPtr", b, IF bad = {} THEN "nil" ELSE "ociError")
  /\ UNCHANGED <<kind, freeList, heap, crashed, nbinds>>

(* the fields bndInt64Slice.close clears before the pool return *)
Int64Reset_KeepsStmt(bnd) == [bnd EXCEPT !.ocibnd = NilP, !.values = NilP]

Int64Reset(bnd) == [bnd EXCEPT !.stmt = NilP, !.ocibnd = NilP, !.values = NilP]

(* bndInt64Slice.close *)
Int64Close(b) ==
  /\ kind = "Int64Slice" /\ CanClose(b)
  /\ lob' = LobIdle /\ calls' = <<>>
  /\ LET stmt == bnds[b].stmt IN
     /\ bnds' = [bnds EXCEPT ![b] =
                   [arrHlpClose(Int64Reset(bnds[b])) EXCEPT
                                                !.cvals = ZeroSlice, !.input = ZeroSlice,
                                                !.maxarr = 0, !.ex = "no",
                                                !.closes = @ + 1, !.phase = "closed"]]
     /\ IF putBndPanics(stmt)
          THEN /\ freeList' = freeList
               /\ ret' = Recovered(b, "put")
          ELSE /\ freeList' = putBnd(freeList, b)
               /\ ret' = [Ret("close", b, "nil") EXCEPT !.pushed = TRUE]
  /\ UNCHANGED <<kind, heap, crashed, nbinds>>

----------------------------------------------------------------------------
(* The binder pool: stmt.getBnd (outside src/) *)

ZeroBnd(k) ==
  CASE k = "Lob" -> [stmt |-> NilP, ocibnd |-> NilP, ociLobLocator |-> NilP,
                     phase |-> "idle", closes |-> 0]
    [] k = "IntervalDS" -> [stmt |-> NilP, ocibnd |-> NilP, ociInterval |-> NilP,
                     phase |-> "idle", closes |-> 0]
    [] k = "Time" -> [stmt |-> NilP, ocibnd |-> NilP, ociDateTime |-> NilP,
                     cZone |-> NilP, zoneBuf |-> <<>>, phase |-> "idle", closes |-> 0]
    [] OTHER -> ZeroInt64Bnd

(* acquire: an idle binder from the free-list, or a new one when it is empty *)
Acquire ==
  /\ ~crashed /\ ~Busy
  /\ IF freeList # <<>>
       THEN /\ bnds' = [bnds EXCEPT ![Head(freeList)].phase = "idle", ![Head(freeList)].closes = 0]
            /\ freeList' = Tail(freeList)
       ELSE /\ Len(bnds) < (IF kind = "Int64Slice" THEN MaxArrBnd ELSE MaxBnd)
            /\ bnds' = Append(bnds, ZeroBnd(kind))
            /\ freeList' = freeList
  /\ calls' = <<>> /\ ret' = NoRet /\ lob' = LobIdle
  /\ UNCHANGED <<kind, heap, crashed, nbinds>>

----------------------------------------------------------------------------
(* DrvStmt, the database/sql/driver statement wrapping a Stmt (drvStmt.go).
   The one DrvStmt of a behaviour is bnds[1]; calls is the log of the calls
   it makes on the logger and on the statement it wraps. *)

(* the driver.Value lists Exec and Query are given *)
DrvValues == {<<>>, <<1>>, <<1, 2>>}

(* params[n] = values[n] for every n *)
DrvParams(values) == [n \in 1..Len(values) |-> values[n]]

(* checkIsOpen *)
checkIsOpen(ds) == IF ds.stmt = NilP THEN "DrvStmt is closed." ELSE "nil"

(* sysName reads ds.stmt.ses...: a nil dereference when ds.stmt is nil *)
sysNamePanics(ds) == ds.stmt = NilP

(* log(true): the Infof call, its arguments evaluated first *)
DrvLog(op) == Call("Infof", NilP, "", 0, <<op>>, "ok")

(* what Exec and Query wrap a failure in: errE of the closed error, errE of
   the statement's error *)
DrvErr(e) == IF e = "DrvStmt is closed." THEN "errE_closed" ELSE "errE_stmt"

(* the steps Close, Exec and Query share: log, then the open check; rest is
   the call on the wrapped statement and its result *)
DrvOp(op, stmtCall, okRet) ==
  /\ kind = "DrvStmt" /\ nbinds < MaxBinds
  /\ nbinds' = nbinds + 1
  /\ IF sysNamePanics(bnds[1])
       THEN /\ ret' = Panicked(op, 1, "log")
            /\ calls' = calls
       ELSE IF checkIsOpen(bnds[1]) # "nil"
       THEN /\ ret' = Ret(op, 1, DrvErr(checkIsOpen(bnds[1])))
            /\ calls' = Append(calls, DrvLog(op))
       ELSE /\ calls' = calls \o <<DrvLog(op), stmtCall>>
            /\ ret' = IF stmtCall.st = "err" THEN Ret(op, 1, DrvErr("stmt")) ELSE okRet
  /\ UNCHANGED <<kind, bnds, freeList, heap, lob, crashed>>

(* DrvStmt.Close *)
DrvClose(st) ==
  DrvOp("Close", Call("stmt.Close", bnds[1].stmt, "", 0, <<>>, st), Ret("Close", 1, "nil"))

(* DrvStmt.Exec: the statement reports rowsAffected and lastInsertId *)
DrvExec(values, st, rowsAffected, lastInsertId) ==
  DrvOp("Exec", Call("stmt.exe", bnds[1].stmt, "", 0, DrvParams(values), st),
        Ret("Exec", 1, "nil") @@
          [result |-> IF rowsAffected = 0 THEN <<"ResultNoRows">>
                      ELSE <<"DrvExecResult", rowsAffected, lastInsertId>>])

(* DrvStmt.Query *)
DrvQuery(values, st) ==
  DrvOp("Query", Call("stmt.qry", bnds[1].stmt, "", 0, DrvParams(values), st),
        Ret("Query", 1, "nil") @@ [result |-> <<"DrvQueryResult">>])

(* DrvStmt.NumInput: 0 for a nil statement, else the statement's count *)
DrvNumInput(n) ==
  /\ kind = "DrvStmt" /\ nbinds < MaxBinds
  /\ nbinds' = nbinds + 1
  /\ IF bnds[1].stmt = NilP
       THEN /\ ret' = [Ret("NumInput", 1, "nil") EXCEPT !.iters = 0]
            /\ calls' = calls
       ELSE /\ ret' = [Ret("NumInput", 1, "nil") EXCEPT !.iters = n]
            /\ calls' = Append(calls, Call("stmt.NumInput", bnds[1].stmt, "", 0, <<>>, "ok"))
  /\ UNCHANGED <<kind, bnds, freeList, heap, lob, crashed>>

----------------------------------------------------------------------------

InitOf(kinds) ==
  /\ kind \in kinds
  /\ bnds = <<>>
  /\ freeList = <<>>
  /\ heap = <<>>
  /\ calls = <<>>
  /\ ret = NoRet
  /\ lob = LobIdle
  /\ crashed = FALSE
  /\ nbinds = 0

Init == InitOf(Kinds)

BufSizes == {-1, 0} \cup (1..MaxBuf)

ScalarOutcomes == {"ok", "allocErr", "allocInvalid", "setErr", "bindErr"}

ArrOutcomes == {"ok", "conv1", "convLast", "bindErr", "strideErr"}

NativePats == {"keep", "null", "alt", "big"}

(* the rows of the caller's slice that are null *)
NullPats == {{}, {1}}

LobActs ==
  \/ \E b \in 1..Len(bnds), L \in 0..MaxLen, term \in Terms, sz \in BufSizes,
        o \in {"ok", "allocErr", "allocInvalid", "createErr"} : LobBindReader(b, L, term, sz, o)
  \/ LobLookahead
  \/ \E st \in {"ok", "err"}, amt \in 0..MaxLen : LobWrite(st, amt)
  \/ \E st \in {"ok", "err"} : LobBindByPos(st)
  \/ \E b \in 1..Len(bnds), dies \in BOOLEAN : LobClose(b, dies)

ScalarActs ==
  \/ \E b \in 1..Len(bnds), v \in IntervalVals, o \in ScalarOutcomes : IntervalBind(b, v, o)
  \/ \E b \in 1..Len(bnds) : IntervalClose(b)
  \/ \E b \in 1..Len(bnds), z \in ZoneOffsets, o \in ScalarOutcomes : TimeBind(b, z, o)
  \/ \E b \in 1..Len(bnds) : TimeClose(b)

ArrActs ==
  \/ \E b \in 1..Len(bnds), L \in 0..MaxRows, slack \in 0..1, nulls \in NullPats,
        assoc \in BOOLEAN, o \in ArrOutcomes :
          nulls \subseteq 1..L /\ Int64BindOra(b, L, slack, nulls, assoc, o)
  \/ \E b \in 1..Len(bnds), L \in 0..MaxRows, slack \in 0..1, assoc \in BOOLEAN,
        o \in ArrOutcomes : Int64Bind(b, L, slack, assoc, o)
  \/ \E b \in 1..Len(bnds), n \in 0..(MaxRows + 1), pat \in NativePats : Int64Exec(b, n, pat)
  \/ \E b \in 1..Len(bnds) : Int64SetPtr(b)
  \/ \E b \in 1..Len(bnds) : Int64Close(b)

(* binders of every kind *)
Next == Acquire \/ LobActs \/ ScalarActs \/ ArrActs

Spec == Init /\ [][Next]_vars

(* the LOB streaming binder alone *)
NextLob == Acquire \/ LobActs

InitLob == InitOf({"Lob"})

SpecLob == InitLob /\ [][NextLob]_vars

(* the interval and timestamp binders alone *)
NextScalar == Acquire \/ ScalarActs

InitScalar == InitOf({"IntervalDS", "Time"})

SpecScalar == InitScalar /\ [][NextScalar]_vars

(* the int64 slice binder alone *)
NextSlice == Acquire \/ ArrActs

InitSlice == InitOf({"Int64Slice"})

SpecSlice == InitSlice /\ [][NextSlice]_vars

(* a DrvStmt alone, wrapping a statement or holding none *)
NextDrv ==
  \/ \E st \in {"ok", "err"} : DrvClose(st)
  \/ \E values \in DrvValues, st \in {"ok", "err"}, rows \in {0, 2}, id \in {0, 7} :
        DrvExec(values, st, rows, id)
  \/ \E values \in DrvValues, st \in {"ok", "err"} : DrvQuery(values, st)
  \/ \E n \in 0..1 : DrvNumInput(n)

InitDrv ==
  /\ kind = "DrvStmt"
  /\ bnds \in {<<[stmt |-> NilP]>>, <<[stmt |-> TheStmt]>>}
  /\ freeList = <<>>
  /\ heap = <<>>
  /\ calls = <<>>
  /\ ret = NoRet
  /\ lob = LobIdle
  /\ crashed = FALSE
  /\ nbinds = 0

SpecDrv == InitDrv /\ [][NextDrv]_vars

(* zoneOffset alone, on the zone buffer of one timestamp binder, for every
   zone offset of less than a day.  One call per behaviour: the function
   keeps nothing but the buffer, which it resets first. *)
SecondsPerDay == 86400

NextZone ==
  /\ ret.op = "none"
  /\ \E z \in (1 - SecondsPerDay)..(SecondsPerDay - 1) : ZoneOffsetCall(1, z)

InitZone ==
  /\ kind = "Time"
  /\ bnds = <<ZeroBnd("Time")>>
  /\ freeList = <<>>
  /\ heap = <<>>
  /\ calls = <<>>
  /\ ret = NoRet
  /\ lob = LobIdle
  /\ crashed = FALSE
  /\ nbinds = 0

SpecZone == InitZone /\ [][NextZone]_vars

----------------------------------------------------------------------------
(* Properties of the LOB streaming binder, under SpecLob *)

(* the OCILobWrite2 calls of the bindReader running or last run, in order *)
Writes == SelectSeq(calls, LAMBDA c : c.op = "LobWrite2")

RECURSIVE Concat(_)
Concat(cs) == IF cs = <<>> THEN <<>> ELSE Head(cs).buf \o Concat(Tail(cs))

Pieces == [i \in 1..Len(Writes) |-> Writes[i].piece]

CeilDiv(a, b) == (a + b - 1) \div b

(* writeLob has returned nil: every read and every native write succeeded *)
StreamDone == kind = "Lob" /\ lob.pc = "bindpos"

(* C1: when every read and every native write succeeds, the chunks handed to
   OCILobWrite2, concatenated in call order, are the source bytes. *)
C1_WrittenEqualsSource ==
  (StreamDone /\ lob.term = "EOF") => Concat(Writes) = SrcData(lob.L)

(* the tags of a stream of n chunks *)
TagsOf(n) ==
  [i \in 1..n |-> IF n = 1 THEN "ONE" ELSE IF i = 1 THEN "FIRST"
                                      ELSE IF i = n THEN "LAST" ELSE "NEXT"]

IsPrefix(p, q) == Len(p) <= Len(q) /\ \A i \in 1..Len(p) : p[i] = q[i]

(* C2: a source of L >= 1 bytes whose reads and writes succeed is written in
   ceil(L/B) pieces, full but for the last, tagged ONE, or FIRST LAST, or
   FIRST NEXT.. LAST; writeLob then returns nil (it fails only when a native
   call failed); and the tags written so far always begin such a sequence. *)
C2_PieceTags ==
  kind = "Lob" =>
    /\ (StreamDone /\ lob.term = "EOF") =>
          /\ Len(Writes) = CeilDiv(lob.L, lob.B)
          /\ Pieces = TagsOf(CeilDiv(lob.L, lob.B))
          /\ \A i \in 1..Len(Writes) :
                Len(Writes[i].buf) = IF i < Len(Writes) THEN lob.B
                                     ELSE lob.L - (Len(Writes) - 1) * lob.B
    /\ (lob.pc = "ret" /\ lob.term = "EOF" /\ lob.L >= 1 /\ ret.err # "nil") =>
          \E i \in 1..Len(calls) : calls[i].st # "ok"
    /\ \E n \in 1..(MaxLen + 1) : IsPrefix(Pieces, TagsOf(n))

(* a stream of at least three pieces has been written *)
C2_ThreePiecesWritten ==
  StreamDone /\ lob.term = "EOF" /\ lob.L > 2 * lob.B /\ Len(Writes) >= 3

(* C3: every OCILobWrite2 call is given at least one byte; for a source that
   ends with io.EOF or fails with an error of its own, the write step is never
   reached with an empty pending chunk, so the buffer the lookahead trimmed to
   zero bytes is never the one written. *)
C3_NoEmptyWrite ==
  kind = "Lob" =>
    /\ \A i \in 1..Len(Writes) : Len(Writes[i].buf) >= 1
    /\ (lob.pc = "write" /\ lob.term \in {"EOF", "ERR"}) => lob.act.len >= 1
    /\ (lob.term \in {"EOF", "ERR"}) => ret.panicAt # "write"

(* the lookahead hit end-of-stream with no byte, and the stream ended there *)
C3_LookaheadTrimmedToZero ==
  StreamDone /\ lob.next.len = 0 /\ Len(Writes) >= 1 /\ lob.pos = lob.L

(* bindReader has returned from reading a source of no bytes that ended with
   io.EOF (the temporary LOB had been allocated) *)
EmptySourceRead ==
  /\ kind = "Lob" /\ lob.pc = "ret" /\ ret.op = "bindReader"
  /\ lob.L = 0 /\ lob.term = "EOF"
  /\ bnds[lob.bnd].ociLobLocator # NilP

(* C4: a source that yields no byte before end-of-stream makes bindReader
   return the empty-write error, with no OCILobWrite2 call and no
   registration of the locator. *)
C4_EmptySource ==
  EmptySourceRead =>
    /\ ret.err = "errEmpty"
    /\ Writes = <<>>
    /\ \A i \in 1..Len(calls) : calls[i].op # "BindByPos"
    /\ bnds[lob.bnd].ocibnd = NilP

C4_EmptySourceReturned == EmptySourceRead /\ ret.err = "errEmpty"

(* frees issued on a descriptor by bindReader's own paths and the first close *)
FirstFrees(fs) == SelectSeq(fs, LAMBDA who : who \in {"alloc", "finish", "close1"})

(* no binder is between its bind and its close *)
AllClosed == ~Busy /\ \A b \in 1..Len(bnds) : bnds[b].phase # "bound"

(* C5: whatever bindReader's outcome, after one close the temporary LOB and
   its descriptor have each been freed exactly once: never by both
   bindReader's failure path and close, never by neither. *)
C5_FreedExactlyOnce ==
  kind = "Lob" =>
    \A d \in 1..Len(heap) :
      /\ Len(FirstFrees(heap[d].frees)) <= 1
      /\ Len(FirstFrees(heap[d].tempFrees)) <= 1
      /\ AllClosed =>
            /\ Len(heap[d].frees) >= 1
            /\ heap[d].temp = "created" => Len(heap[d].tempFrees) >= 1

(* the operations of the calls issued, in order *)
OpsOf(cs) == [i \in 1..Len(cs) |-> cs[i].op]

(* an OCILobWrite2 call of the bindReader running or last run has failed *)
WriteFailedAt(i) == calls[i].op = "LobWrite2" /\ calls[i].st = "err"

(* C13: after a failed OCILobWrite2 the calls that follow are exactly the
   session's Break, then OCILobFreeTemporary and OCIDescriptorFree on the
   locator; bindReader then returns the native error; no OCILobWrite2 follows
   the failed one and the locator is not registered. *)
C13_WriteFailureUnwinds ==
  kind = "Lob" =>
    \A i \in 1..Len(calls) :
      WriteFailedAt(i) =>
        /\ OpsOf(SubSeq(calls, i + 1, Len(calls))) =
              <<"Break", "LobFreeTemporary", "DescriptorFree">>
        /\ \A j \in (i + 2)..Len(calls) : calls[j].arg = calls[i].arg
        /\ \A j \in 1..Len(calls) : calls[j].op # "BindByPos"
        /\ ret.op = "bindReader" /\ ret.err = "ociError" /\ ~ret.escaped
        /\ bnds[ret.bnd].ocibnd = NilP

(* the third write of a stream has failed, after two that succeeded *)
C13_ThirdWriteFailed ==
  /\ kind = "Lob" /\ Len(Writes) = 3 /\ Writes[3].st = "err" /\ Writes[1].st = "ok"
  /\ ret.err = "ociError"

(* the error a reader that does not end with io.EOF fails with *)
ReaderError(term) == IF term = "ERR" THEN "ErrRead" ELSE "ErrUnexpectedEOF"

(* writeLob is over for a reader that fails after its L bytes with an error
   other than io.EOF, the temporary LOB allocated and no native write failed:
   the read that asked for more than the L bytes has failed *)
ReadFailed ==
  /\ kind = "Lob" /\ lob.pc \in {"bindpos", "ret"} /\ lob.term # "EOF"
  /\ bnds[lob.bnd].ociLobLocator # NilP
  /\ \A i \in 1..Len(Writes) : Writes[i].st = "ok"

Max(a, b) == IF a > b THEN a ELSE b

(* C14: when a read fails with an error other than end-of-stream, bindReader
   returns that error; the chunk pending at the failed read (the last full
   chunk read) is not written, nor any later one, and the locator is not
   registered. *)
C14_ReadErrorPropagates ==
  ReadFailed =>
    /\ lob.pc = "ret" /\ ret.op = "bindReader"
    /\ ret.err = ReaderError(lob.term) /\ ~ret.escaped
    /\ Len(Writes) = Max((lob.L \div lob.B) - 1, 0)
    /\ \A i \in 1..Len(calls) : calls[i].op # "BindByPos"
    /\ bnds[lob.bnd].ocibnd = NilP

(* C15: the session's Break is issued only after a failed OCILobWrite2: not
   when bindReader succeeds, when the temporary LOB allocation fails, when
   the source is empty, or when a read fails before any native write. *)
C15_BreakOnlyAfterFailedWrite ==
  kind = "Lob" =>
    \A j \in 1..Len(calls) :
      calls[j].op = "Break" => \E i \in 1..(j - 1) : WriteFailedAt(i)

RECURSIVE SumSeq(_)
SumSeq(q) == IF q = <<>> THEN 0 ELSE Head(q) + SumSeq(Tail(q))

(* C16: every OCILobWrite2 is issued at offset 1 plus the sum of the amounts
   the native call reported for the earlier writes of the stream, the first
   at offset 1; the running offset is that sum, not the bytes handed over. *)
C16_OffsetFollowsReported ==
  kind = "Lob" =>
    /\ \A i \in 1..Len(Writes) :
          /\ i - 1 <= Len(lob.amts)
          /\ Writes[i].off = 1 + SumSeq(SubSeq(lob.amts, 1, i - 1))
    /\ lob.off = SumSeq(lob.amts)

(* a second write has followed one of which the native call reported fewer
   bytes consumed than it was handed *)
C16_WriteAfterPartialAccept ==
  /\ kind = "Lob" /\ Len(Writes) >= 2
  /\ lob.amts[1] < Len(Writes[1].buf)
  /\ Writes[2].off = 1 + lob.amts[1]

----------------------------------------------------------------------------
(* Properties of close and the binder pool, for every binder kind, under Spec *)

(* C6: when a step of close before the pool return panics, close recovers,
   returns an error, and the binder is still pushed on the free-list: the
   pool return is not skipped. *)
C6_PanicStillReturnsToPool ==
  (ret.op = "close" /\ ret.panicAt = "free") =>
    /\ ~ret.escaped /\ ret.err # "nil"
    /\ ret.pushed

Has(fs, who) == \E i \in 1..Len(fs) : fs[i] = who

(* C7: a second close in a row lets no panic escape, and frees nothing that
   the first close freed. *)
C7_SecondCloseSafe ==
  /\ ret.op = "close" => ~ret.escaped
  /\ \A d \in 1..Len(heap) :
        /\ ~(Has(heap[d].frees, "close1") /\ Has(heap[d].frees, "close2"))
        /\ ~(Has(heap[d].tempFrees, "close1") /\ Has(heap[d].tempFrees, "close2"))

(* a binder has been closed twice in a row, the first close having freed a
   descriptor *)
C7_ClosedTwice ==
  /\ ret.op = "close" /\ bnds[ret.bnd].closes = 2
  /\ \E d \in 1..Len(heap) : Has(heap[d].frees, "close1")

(* the binder holds no statement, bind handle or native descriptor *)
NoResidue(bnd) ==
  /\ bnd.stmt = NilP /\ bnd.ocibnd = NilP
  /\ CASE kind = "Lob" -> bnd.ociLobLocator = NilP
       [] kind = "IntervalDS" -> bnd.ociInterval = NilP
       [] kind = "Time" -> bnd.ociDateTime = NilP /\ bnd.cZone = NilP
       [] OTHER -> bnd.values = NilP

(* C8: a binder on the free-list, and one taken from it and not bound yet,
   holds no statement, bind handle or native descriptor. *)
C8_PooledBinderIsClean ==
  /\ \A i \in 1..Len(freeList) : NoResidue(bnds[freeList[i]])
  /\ \A b \in 1..Len(bnds) : bnds[b].phase \in {"closed", "idle"} => NoResidue(bnds[b])

(* close has freed a descriptor and pushed the binder *)
C8_PushedAfterFree ==
  /\ ret.op = "close" /\ ret.pushed /\ freeList # <<>>
  /\ \E i \in 1..Len(calls) : calls[i].op = "DescriptorFree" /\ calls[i].arg # NilP

(* how often binder b is on the free-list *)
TimesPooled(b) == Len(SelectSeq(freeList, LAMBDA x : x = b))

(* C23: whatever acquires, binds and closes came before (a close repeated
   on the same binder, a close after a failed bind), no binder is on the
   free-list more than once, and no binder on it is still bound to a
   statement; a close has left its binder on the list at most once. *)
C23_FreeListSound ==
  /\ \A b \in 1..Len(bnds) : TimesPooled(b) <= 1
  /\ \A i \in 1..Len(freeList) :
        /\ bnds[freeList[i]].stmt = NilP
        /\ bnds[freeList[i]].phase # "bound"

(* an int64 slice binder closed twice in a row is on the free-list once *)
C23_ClosedTwicePooledOnce ==
  /\ kind = "Int64Slice" /\ ret.op = "close"
  /\ bnds[ret.bnd].closes = 2 /\ TimesPooled(ret.bnd) = 1

----------------------------------------------------------------------------
(* Properties of the interval and timestamp binders, under SpecScalar *)

(* bind of an interval or timestamp binder has returned *)
ScalarBindDone == kind \in {"IntervalDS", "Time"} /\ ret.op = "bind"

(* the OCI calls of the bind, in order (C.CString is not one) *)
OciCalls == SelectSeq(calls, LAMBDA c : c.op # "CString")

BindOrder ==
  <<"DescriptorAlloc",
    IF kind = "Time" THEN "DateTimeConstruct" ELSE "IntervalSetDaySecond",
    "BindByPos">>

(* C17: the OCI calls of one scalar bind are a beginning of allocate,
   populate, register, each issued only after the one before succeeded; the
   bind stops at the first call that does not succeed, returns the last
   native error when that call returned OCI_ERROR, and returns nil exactly
   when the registration succeeded. *)
C17_ScalarBindOrder ==
  ScalarBindDone =>
    LET n == Len(OciCalls) IN
    /\ n \in 1..3
    /\ OpsOf(OciCalls) = SubSeq(BindOrder, 1, n)
    /\ \A i \in 1..(n - 1) : OciCalls[i].st = "ok"
    /\ n < 3 => OciCalls[n].st # "ok"
    /\ OciCalls[n].st = "err" => ret.err = "ociError"
    /\ ret.err = "nil" <=> (n = 3 /\ OciCalls[3].st = "ok")

(* the populate call of a timestamp bind has failed *)
C17_PopulateFailed ==
  /\ ScalarBindDone /\ kind = "Time"
  /\ Len(OciCalls) = 2 /\ OciCalls[2].st = "err" /\ ret.err = "ociError"

(* C18: whatever the outcome of a scalar bind, nothing it allocated is freed
   twice, and once its binder is closed every descriptor and zone string it
   allocated has been freed exactly once; the timestamp binder's close frees
   the zone string before the descriptor. *)
C18_ScalarFreedOnce ==
  kind \in {"IntervalDS", "Time"} =>
    /\ \A d \in 1..Len(heap) : Len(heap[d].frees) <= 1
    /\ AllClosed => \A d \in 1..Len(heap) : Len(heap[d].frees) = 1
    /\ (kind = "Time" /\ ret.op = "close") =>
          \/ calls = <<>>
          \/ OpsOf(calls) = <<"free", "DescriptorFree">>

(* a timestamp bind that failed at the descriptor allocation has been closed:
   the zone string is freed, there is no descriptor *)
C18_ClosedAfterFailedAlloc ==
  /\ kind = "Time" /\ ret.op = "close" /\ AllClosed
  /\ Len(calls) = 2 /\ calls[1].arg # NilP /\ calls[2].arg = NilP
  /\ heap[calls[1].arg].frees = <<"close1">>

----------------------------------------------------------------------------
(* Properties of the int64 slice binder, under SpecSlice *)

(* bindOra has registered its buffers with OCIBindByPos *)
Registered ==
  /\ kind = "Int64Slice" /\ ret.op = "bindOra"
  /\ \E i \in 1..Len(calls) : calls[i].op = "BindByPos"

(* at registration the indicators and values of the rows are the input's *)
RowsMatchInput(a) ==
  \A i \in 1..a.input.len :
    /\ (a.nullInds.buf[i] = NullInd) <=> a.input.buf[i].IsNull
    /\ ~a.input.buf[i].IsNull =>
          /\ a.ints.buf[i] = a.input.buf[i].Value
          /\ a.ociNumbers.buf[i] = NumberFromInt(a.input.buf[i].Value)

(* C9 as stated: at registration the indicator array has the input's length
   n, indicator i is the null sentinel exactly when row i is null, and the
   value buffer holds the value of every non-null row. *)
C9_IndicatorsAsStated ==
  Registered => /\ bnds[ret.bnd].nullInds.len = bnds[ret.bnd].input.len
                /\ RowsMatchInput(bnds[ret.bnd])

(* C9, amended: as stated for n >= 1; for n = 0, registered only by an
   associative-array bind, the indicator array has the one synthetic slot. *)
C9_IndicatorsMatchInput ==
  Registered =>
    /\ bnds[ret.bnd].nullInds.len =
          IF bnds[ret.bnd].input.len = 0 THEN 1 ELSE bnds[ret.bnd].input.len
    /\ bnds[ret.bnd].input.len = 0 => bnds[ret.bnd].isAssocArr
    /\ RowsMatchInput(bnds[ret.bnd])

(* a reused binder has registered a slice with a null and a non-null row *)
C9_MixedRowsRegistered ==
  /\ Registered /\ nbinds = 2 /\ bnds[ret.bnd].input.len = 2
  /\ \E i, j \in 1..2 : bnds[ret.bnd].input.buf[i].IsNull /\ ~bnds[ret.bnd].input.buf[j].IsNull

(* setPtr has returned nil on an associative-array bind made with bindOra *)
SetPtrDone ==
  /\ kind = "Int64Slice" /\ ret.op = "setPtr" /\ ret.err = "nil"
  /\ bnds[ret.bnd].isAssocArr /\ bnds[ret.bnd].values # NilP

(* C10: after setPtr the caller's slice has the reported current length; a
   row whose indicator is not null is not null and holds the integer
   converted back from its numeric slot, which is the bound integer when the
   slot still holds what bind put there; a row whose indicator is null is
   null. *)
C10_OutputMatchesNative ==
  SetPtrDone =>
    LET a == bnds[ret.bnd] IN
    /\ a.cvals.len = a.curlen
    /\ \A i \in 1..a.curlen :
          IF a.nullInds.buf[i] # NullInd
            THEN /\ ~a.cvals.buf[i].IsNull
                 /\ a.cvals.buf[i].Value = NumberToInt(a.ociNumbers.buf[i])
                 /\ (i <= a.input.len /\ ~a.input.buf[i].IsNull
                       /\ a.ociNumbers.buf[i] = NumberFromInt(a.input.buf[i].Value))
                      => a.cvals.buf[i].Value = a.input.buf[i].Value
            ELSE a.cvals.buf[i].IsNull

(* setPtr has written a null and a non-null row *)
C10_MixedRowsWritten ==
  /\ SetPtrDone /\ bnds[ret.bnd].curlen >= 2
  /\ \E i, j \in 1..bnds[ret.bnd].curlen :
        bnds[ret.bnd].cvals.buf[i].IsNull /\ ~bnds[ret.bnd].cvals.buf[j].IsNull

(* bind or bindOra has returned from an ordinary (not associative-array) bind
   in which no native call failed *)
OrdinaryBindDone ==
  /\ kind = "Int64Slice" /\ ret.op \in {"bind", "bindOra"}
  /\ ~bnds[ret.bnd].isAssocArr
  /\ \A i \in 1..Len(calls) : calls[i].st = "ok"

(* C11: an ordinary batch bind of n >= 0 rows whose native calls all succeed
   does not panic, returns nil, and returns the iteration count n. *)
C11_OrdinaryBindReturnsRowCount ==
  OrdinaryBindDone =>
    /\ ~ret.escaped /\ ret.err = "nil"
    /\ ret.iters = bnds[ret.bnd].curlen

(* bind or bindOra of the int64 slice binder has returned or panicked *)
Int64BindDone == kind = "Int64Slice" /\ ret.op \in {"bind", "bindOra"}

(* C19: the native calls of an int64 array bind are the conversions of the
   rows in order, then one positional registration, then one stride
   registration; the bind stops at the first call that fails and returns the
   last native error, so a failed conversion is followed by no conversion
   and no registration and a failed positional registration by no stride
   registration; it returns nil exactly after both registrations succeeded,
   every row converted. *)
C19_Int64BindStopsAtFailure ==
  Int64BindDone =>
    LET n == Len(calls)
        k == Len(SelectSeq(calls, LAMBDA c : c.op = "NumberFromInt"))
    IN /\ \A i \in 1..k : calls[i].op = "NumberFromInt" /\ calls[i].arg = i
       /\ n <= k + 2
       /\ n >= k + 1 => calls[k + 1].op = "BindByPos"
       /\ n = k + 2 => calls[k + 2].op = "BindArrayOfStruct"
       /\ \A i \in 1..(n - 1) : calls[i].st = "ok"
       /\ (n >= 1 /\ calls[n].st = "err") => (ret.err = "ociError" /\ ~ret.escaped)
       /\ ret.err = "nil" <=> (n = k + 2 /\ calls[n].st = "ok")
       /\ ret.err = "nil" => k = bnds[ret.bnd].ints.len

(* the conversion of the first of two rows has failed *)
C19_FirstRowFailed ==
  /\ Int64BindDone /\ bnds[ret.bnd].curlen = 2
  /\ Len(calls) = 1 /\ calls[1].op = "NumberFromInt" /\ calls[1].st = "err"
  /\ ret.err = "ociError"

(* the host integers, the numeric slots, the null indicators, the actual
   lengths and the return codes all have length n *)
AllOfLength(a, n) ==
  /\ a.ints.len = n /\ a.ociNumbers.len = n
  /\ a.nullInds.len = n /\ a.alen.len = n /\ a.rcode.len = n

(* the bind has reached its positional registration *)
AtRegistration == Int64BindDone /\ \E i \in 1..Len(calls) : calls[i].op = "BindByPos"

(* setPtr has truncated to the reported current length and returned *)
AfterSetPtr ==
  /\ kind = "Int64Slice" /\ ret.op = "setPtr" /\ ~ret.escaped
  /\ bnds[ret.bnd].isAssocArr

(* C20: the value buffer (host integers and numeric slots), the indicator,
   actual-length and return-code arrays have one length at registration, and
   again, the reported current length, after setPtr. *)
C20_ParallelArraysSameLength ==
  /\ AtRegistration => AllOfLength(bnds[ret.bnd], bnds[ret.bnd].ints.len)
  /\ AfterSetPtr => AllOfLength(bnds[ret.bnd], bnds[ret.bnd].curlen)

(* an associative-array bind is registered and waits for the execution *)
AssocRegistered(a) == a.phase = "bound" /\ a.ex = "no" /\ a.isAssocArr /\ a.ocibnd # NilP

(* C22: the maximum array length given at registration, which bounds the
   current length the native side may report, does not exceed the capacity
   of the host integers or of the null indicators, so setPtr never slices
   out of range, also on a binder reused after a bind of larger capacity. *)
C22_SetPtrInRange ==
  kind = "Int64Slice" =>
    /\ ret.op = "setPtr" => ~ret.escaped
    /\ \A b \in 1..Len(bnds) :
          AssocRegistered(bnds[b]) =>
            /\ bnds[b].maxarr <= Cap(bnds[b].ints)
            /\ bnds[b].maxarr <= Cap(bnds[b].nullInds)

----------------------------------------------------------------------------
(* Properties of zoneOffset, under SpecZone *)

IsDigit(ch) == \E d \in 0..9 : Digit(d) = ch

DigitVal(ch) == CHOOSE d \in 0..9 : Digit(d) = ch

Abs(n) == IF n < 0 THEN 0 - n ELSE n

(* zoneOffset has just run: its input and the string in the zone buffer *)
ZoneOffsetRan == kind = "Time" /\ ret.op = "zoneOffset"

(* C12: for a zone offset strictly between -86400 and 86400 seconds the
   string has exactly the six characters sign, HH, ':', MM, with HH in
   00..23 and MM in 00..59, the sign '-' exactly for a negative offset, and
   HH hours MM minutes the absolute offset truncated to whole minutes. *)
C12_ZoneOffsetFormat ==
  ZoneOffsetRan =>
    LET z == calls[1].off
        s == bnds[ret.bnd].zoneBuf
    IN /\ Len(s) = 6
       /\ s[1] = (IF z < 0 THEN "-" ELSE "+")
       /\ s[4] = ":"
       /\ \A i \in {2, 3, 5, 6} : IsDigit(s[i])
       /\ LET hours == 10 * DigitVal(s[2]) + DigitVal(s[3])
              minutes == 10 * DigitVal(s[5]) + DigitVal(s[6])
          IN /\ hours \in 0..23
             /\ minutes \in 0..59
             /\ hours * 3600 + minutes * 60 = Abs(z) - (Abs(z) % 60)

(* a negative offset with a half hour and odd seconds: -09:30 *)
C12_NegativeHalfHour ==
  /\ ZoneOffsetRan /\ calls[1].off = -34259
  /\ bnds[ret.bnd].zoneBuf = <<"-", "0", "9", ":", "3", "0">>

----------------------------------------------------------------------------
(* Properties of DrvStmt, under SpecDrv *)

(* Close, Exec or Query has been called on a DrvStmt whose statement is nil *)
CalledWhenClosed ==
  /\ kind = "DrvStmt" /\ ret.op \in {"Close", "Exec", "Query"}
  /\ bnds[1].stmt = NilP

(* C21: Close, Exec and Query on a DrvStmt whose statement is nil return the
   'DrvStmt is closed.' error, do not panic and make no call on the
   statement: the open check comes before anything that dereferences it. *)
C21_ClosedStmtReturnsError ==
  CalledWhenClosed =>
    /\ ~ret.escaped
    /\ ret.err = "errE_closed"
    /\ \A i \in 1..Len(calls) : calls[i].op = "Infof"

====
